---- MODULE Spec2Model ----
(***************************************************************************)
(* A model of two parts of the roc repository:                             *)
(*   crates/repl_expect/src/app.rs  the memory view (ExpectMemory) and the *)
(*                                  value decoder (ExpectReplApp);         *)
(*   editor/src/ast.rs              the Expr2 node union, its auxiliary    *)
(*                                  nodes and their shallow_clone.         *)
(* Bytes are numbers 0..255, a value read from memory is kept as its bit   *)
(* pattern (the sequence of its bytes, lowest address first), and a usize  *)
(* is decoded little-endian where the code computes with it.               *)
(***************************************************************************)
EXTENDS Integers, Sequences, FiniteSets, TLC

VARIABLES
    wordsize,   \* std::mem::size_of::<usize>() of the build (4 or 8)
    build,      \* what this build does on undefined behaviour
    buffer,     \* the foreign byte buffer: [base |-> address, bytes |-> Seq(Byte)]
    memory,     \* the ExpectMemory: [start |-> address]
    app,        \* the ExpectReplApp: [memory |-> ExpectMemory, offset |-> usize]
    pc,         \* "ready", or "aborted" once a call has crashed the process
    last,       \* the last call: its name, arguments and outcome
    first,      \* one earlier call kept for comparison with a later repetition
    encoded,    \* what the producer of the buffer stored in it (for the round trip)
    pool,       \* the arena pool: [base, cap, count, cells]
    issued,     \* the handles the pool's allocations returned, in order
    vecs,       \* the PoolVec handles the pool's run allocations returned
    stored,     \* per handle, the value last stored in its slot; for handle #0 also
                \* whether get_mut wrote it
    pool_res,   \* the result of the last pool operation
    orig,       \* a composite node built over the pool's handles
    dup,        \* its shallow_clone
    touched,    \* whether a slot orig reaches was written after the clone
    variant,    \* the Expr2 variant being laid out
    align128,   \* the alignment of i128 and u128 in this build (8 or 16)
    placed,     \* how many of its fields have an offset
    end_off     \* the end of the last field placed

memvars == <<wordsize, build, buffer, memory, app, pc, last, first, encoded>>
poolvars == <<pool, issued, vecs, stored, pool_res, orig, dup, touched>>
layoutvars == <<variant, align128, placed, end_off>>
vars == <<memvars, poolvars, layoutvars>>

----------------------------------------------------------------------------
(* Bounds of the model. *)

\* Length of the foreign buffer.
BufLen == 112
\* Longest string the producer encodes.
MaxStrLen == 25
\* Words at or above this value are kept as "at least HugeWord": far beyond
\* every buffer of the model.
HugeWord == 16777216

\* Bytes of readable memory before and after the buffer; an access beyond them
\* faults in every build.
Slack == 48

WordSizes == {4, 8}
\* Undefined behaviour, per build: a checked build aborts; a lenient one reads
\* whatever the address holds; a normalising one rounds a misaligned address
\* down and keeps only the low bit of a bool.
Builds == {"trapping", "lenient", "normalising"}
StartAddrs == {4096, 4100}

----------------------------------------------------------------------------
(* Values. *)

Crash == [kind |-> "crash"]
None == [kind |-> "none"]
Val(ty, bits) == [kind |-> "val", ty |-> ty, bits |-> bits]
Str(bytes) == [kind |-> "str", bytes |-> bytes]

NumTypes == {"bool", "u8", "u16", "u32", "u64", "u128", "usize",
             "i8", "i16", "i32", "i64", "i128", "isize", "f32", "f64"}

\* std::mem::size_of::<$t>()
SizeOf(ty) ==
    CASE ty \in {"bool", "u8", "i8"} -> 1
      [] ty \in {"u16", "i16"} -> 2
      [] ty \in {"u32", "i32", "f32"} -> 4
      [] ty \in {"u64", "i64", "f64"} -> 8
      [] ty \in {"u128", "i128"} -> 16
      [] ty \in {"usize", "isize"} -> wordsize
      [] ty = "triple" -> 3 * wordsize

\* std::mem::align_of of the types call_function is instantiated with
AlignOf(ty) ==
    CASE ty \in {"bool", "u8", "i8"} -> 1
      [] ty \in {"usize", "isize", "triple"} -> wordsize

\* The value of a little-endian usize, exact below HugeWord.
RECURSIVE LeValue(_, _)
LeValue(bits, i) ==
    IF i > Len(bits) THEN 0
    ELSE LET hi == LeValue(bits, i + 1)
         IN IF hi >= HugeWord \div 256 THEN HugeWord ELSE hi * 256 + bits[i]

AsUsize(bits) == LeValue(bits, 1)

\* The value of an i8 bit pattern.
AsI8(bits) == IF bits[1] >= 128 THEN bits[1] - 256 ELSE bits[1]

----------------------------------------------------------------------------
(* The address space. *)

InBuffer(ptr, n) ==
    /\ ptr >= buffer.base
    /\ ptr + n <= buffer.base + Len(buffer.bytes)

\* The addresses a read can touch without a fault.
Mapped(ptr, n) ==
    /\ ptr >= buffer.base - Slack
    /\ ptr + n <= buffer.base + Len(buffer.bytes) + Slack

\* Whether a read of n bytes at ptr ends the process: always outside the
\* mapped memory, and in a checked build outside the buffer.
Faults(ptr, n) ==
    \/ ~Mapped(ptr, n)
    \/ ~InBuffer(ptr, n) /\ build = "trapping"

\* What the memory next to the buffer holds: some fixed bytes.
OutsideByte(ptr) == (ptr * 13 + 5) % 256

Load(ptr) ==
    IF InBuffer(ptr, 1) THEN buffer.bytes[ptr - buffer.base + 1]
    ELSE OutsideByte(ptr)

LoadBytes(ptr, n) == [i \in 1..n |-> Load(ptr + i - 1)]

\* A faulty variant of read_unaligned: a read that rounds the address down to the
\* alignment of the value, as an aligned load instruction would.
read_aligned_down(ptr, n) ==
    IF Faults(ptr - (ptr % n), n) THEN Crash
    ELSE [kind |-> "bits", bits |-> LoadBytes(ptr - (ptr % n), n)]

\* A read of n bytes at ptr with no alignment requirement; outside the buffer
\* it is undefined behaviour.
read_unaligned(ptr, n) ==
    IF Faults(ptr, n) THEN Crash
    ELSE [kind |-> "bits", bits |-> LoadBytes(ptr, n)]

\* The bytes as a value of the type: every bit pattern is a value, except
\* that a bool is 0 or 1, and any other byte read as a bool is undefined.
Typed(ty, bits) ==
    IF ty = "bool" /\ bits[1] \notin {0, 1}
    THEN CASE build = "trapping" -> Crash
           [] build = "lenient" -> Val(ty, bits)
           [] build = "normalising" -> Val(ty, <<bits[1] % 2>>)
    ELSE Val(ty, bits)

----------------------------------------------------------------------------
(* ExpectMemory: impl ReplAppMemory. *)

\* deref_number!($name, $t): fn $name(&self, addr: usize) -> $t
deref_number(self, ty, addr) ==
    LET ptr == self.start + addr
        r == read_unaligned(ptr, SizeOf(ty))
    IN IF r = Crash THEN Crash ELSE Typed(ty, r.bits)

deref_i8(self, addr) == deref_number(self, "i8", addr)
deref_usize(self, addr) == deref_number(self, "usize", addr)

\* const WIDTH in deref_str
WIDTH == 3 * wordsize

\* RocStr::as_str of a small string: the length is the last byte of the slot
\* without its top bit, the text the first bytes of the slot. A length beyond
\* the slot's capacity is an unchecked read past the inline array.
RocStr_as_str(ptr) ==
    LET len == Load(ptr + WIDTH - 1) % 128
    IN IF Faults(ptr, len) \/ (len > WIDTH - 1 /\ build = "trapping")
       THEN Crash
       ELSE Str(LoadBytes(ptr, len))

\* std::slice::from_raw_parts(ptr, length) and str::from_utf8_unchecked
from_raw_parts(ptr, length) ==
    IF length >= HugeWord \/ Faults(ptr, length) THEN Crash
    ELSE Str(LoadBytes(ptr, length))

\* A faulty variant of deref_str: the capacity word is taken as the length.
deref_str_capacity(self, addr) ==
    LET last_byte == deref_i8(self, addr + WIDTH - 1)
    IN IF last_byte = Crash THEN Crash
       ELSE IF AsI8(last_byte.bits) < 0 THEN RocStr_as_str(self.start + addr)
       ELSE LET offset == deref_usize(self, addr)
                capacity == deref_usize(self, addr + 2 * wordsize)
            IN from_raw_parts(self.start + AsUsize(offset.bits),
                              AsUsize(capacity.bits))

\* A faulty variant of deref_str: a last byte of 0 counts as small too.
deref_str_zero_small(self, addr) ==
    LET last_byte == deref_i8(self, addr + WIDTH - 1)
    IN IF last_byte = Crash THEN Crash
       ELSE IF AsI8(last_byte.bits) <= 0 THEN RocStr_as_str(self.start + addr)
       ELSE LET offset == deref_usize(self, addr)
                length == deref_usize(self, addr + wordsize)
            IN from_raw_parts(self.start + AsUsize(offset.bits),
                              AsUsize(length.bits))

\* fn deref_str(&self, addr: usize) -> &str
deref_str(self, addr) ==
    LET last_byte_addr == addr + WIDTH - 1
        last_byte == deref_i8(self, last_byte_addr)
    IN IF last_byte = Crash THEN Crash
       ELSE LET is_small == AsI8(last_byte.bits) < 0
            IN IF is_small
               THEN RocStr_as_str(self.start + addr)
               ELSE LET offset == deref_usize(self, addr)
                        length == deref_usize(self, addr + wordsize)
                        capacity == deref_usize(self, addr + 2 * wordsize)
                    IN IF Crash \in {offset, length, capacity} THEN Crash
                       ELSE from_raw_parts(self.start + AsUsize(offset.bits),
                                           AsUsize(length.bits))

----------------------------------------------------------------------------
(* editor/src/pool.rs, which ast.rs builds on: a pool of fixed-size slots
   addressed by index. A handle (NodeId) is the index of its slot; a PoolVec
   is the index of the first slot of a run and the run's length. *)

\* crate::pool::NODE_BYTES
NODE_BYTES == 32
\* The number of node ids: the pool fails with RanOutOfNodeIds beyond it.
MaxNodeIds == 4
\* The capacity, in slots, of a fresh pool.
InitialCap == 1

Uninit == [node |-> "uninit"]
RanOutOfNodeIds == [kind |-> "Err", problem |-> "RanOutOfNodeIds"]
Ok(x) == [kind |-> "Ok", value |-> x]

FreshPool ==
    [base |-> 1024, cap |-> InitialCap, count |-> 0,
     cells |-> [i \in 1..InitialCap |-> Uninit]]

RECURSIVE GrownCap(_, _)
GrownCap(cap, need) == IF cap >= need THEN cap ELSE GrownCap(2 * cap, need)

\* A faulty variant of Pool_grow: the new backing storage is not filled from the old.
Pool_grow_without_copy(p, need) ==
    IF need <= p.cap THEN p
    ELSE [p EXCEPT !.base = p.base + p.cap * NODE_BYTES,
                   !.cap = GrownCap(p.cap, need),
                   !.cells = [i \in 1..GrownCap(p.cap, need) |-> Uninit]]

\* Growth: new backing storage of twice the capacity (until it suffices), at
\* another address, with the slots copied over.
Pool_grow(p, need) ==
    IF need <= p.cap THEN p
    ELSE [p EXCEPT !.base = p.base + p.cap * NODE_BYTES,
                   !.cap = GrownCap(p.cap, need),
                   !.cells = [i \in 1..GrownCap(p.cap, need) |->
                                 IF i <= p.cap THEN p.cells[i] ELSE Uninit]]

\* reserve(n): the index of the first of n fresh contiguous slots.
Pool_reserve(p, n) ==
    IF p.count + n > MaxNodeIds THEN [res |-> RanOutOfNodeIds, pool |-> p]
    ELSE [res |-> Ok(p.count),
          pool |-> [Pool_grow(p, p.count + n) EXCEPT !.count = p.count + n]]

\* get(handle): the slot at the handle's index of the current storage.
Pool_get(p, id) == p.cells[id + 1]

\* get_mut(handle) and an assignment through it.
Pool_set(p, id, v) == [p EXCEPT !.cells[id + 1] = v]

\* add(value) -> Res<NodeId>
Pool_add(p, v) ==
    LET r == Pool_reserve(p, 1)
    IN IF r.res.kind = "Err" THEN r
       ELSE [res |-> r.res, pool |-> Pool_set(r.pool, r.res.value, v)]

\* PoolVec::new(items): a run holding the items.
RECURSIVE WriteRun(_, _, _, _)
WriteRun(p, firstid, items, i) ==
    IF i > Len(items) THEN p
    ELSE WriteRun(Pool_set(p, firstid + i - 1, items[i]), firstid, items, i + 1)

PoolVec(firstid, len) == [first_node_id |-> firstid, len |-> len]
EmptyVec == PoolVec(0, 0)

PoolVec_new(p, items) ==
    LET r == Pool_reserve(p, Len(items))
    IN IF r.res.kind = "Err" THEN r
       ELSE [res |-> Ok(PoolVec(r.res.value, Len(items))),
             pool |-> WriteRun(r.pool, r.res.value, items, 1)]

\* PoolVec::shallow_clone(&self): it is given no pool, and copies the handle.
PoolVec_shallow_clone(self) ==
    [first_node_id |-> self.first_node_id, len |-> self.len]

----------------------------------------------------------------------------
(* editor/src/ast.rs: the auxiliary nodes and their shallow_clone. *)

NoneOpt == [kind |-> "None"]
Some(x) == [kind |-> "Some", value |-> x]

SmallInt(number, style) ==
    [node |-> "Expr2", form |-> "SmallInt", number |-> number, style |-> style]

Rigids(named, unnamed) == [node |-> "Rigids", named |-> named, unnamed |-> unnamed]

ValueDef(pattern, expr_type, expr_var) ==
    [node |-> "ValueDef", pattern |-> pattern, expr_type |-> expr_type,
     expr_var |-> expr_var]

WithAnnotation(name, arguments, rigids, return_type) ==
    [node |-> "FunctionDef", form |-> "WithAnnotation", name |-> name,
     arguments |-> arguments, rigids |-> rigids, return_type |-> return_type]

NoAnnotation(name, arguments, return_var) ==
    [node |-> "FunctionDef", form |-> "NoAnnotation", name |-> name,
     arguments |-> arguments, return_var |-> return_var]

\* impl ShallowClone for Rigids
Rigids_shallow_clone(self) ==
    Rigids(PoolVec_shallow_clone(self.named), PoolVec_shallow_clone(self.unnamed))

\* A faulty variant of ValueDef_shallow_clone: the annotation is not carried over.
ValueDef_shallow_clone_unannotated(self) ==
    ValueDef(self.pattern, NoneOpt, self.expr_var)

\* impl ShallowClone for ValueDef
ValueDef_shallow_clone(self) ==
    ValueDef(self.pattern,
             IF self.expr_type.kind = "Some"
             THEN Some([id |-> self.expr_type.value.id,
                        rigids |-> Rigids_shallow_clone(self.expr_type.value.rigids)])
             ELSE NoneOpt,
             self.expr_var)

\* impl ShallowClone for FunctionDef
FunctionDef_shallow_clone(self) ==
    IF self.form = "WithAnnotation"
    THEN WithAnnotation(self.name, PoolVec_shallow_clone(self.arguments),
                        self.rigids, self.return_type)
    ELSE NoAnnotation(self.name, PoolVec_shallow_clone(self.arguments),
                      self.return_var)

\* The ShallowClone trait: the implementation of the node's type.
shallow_clone(self) ==
    CASE self.node = "ValueDef" -> ValueDef_shallow_clone(self)
      [] self.node = "FunctionDef" -> FunctionDef_shallow_clone(self)
      [] self.node = "Rigids" -> Rigids_shallow_clone(self)

\* What is read through a node's handles.
ReadVec(p, v) == [i \in 1..v.len |-> Pool_get(p, v.first_node_id + i - 1)]
ReadRigids(p, r) == <<ReadVec(p, r.named), ReadVec(p, r.unnamed)>>
ReadNode(p, n) ==
    CASE n.node = "Rigids" -> ReadRigids(p, n)
      [] n.node = "ValueDef" ->
            IF n.expr_type.kind = "Some"
            THEN ReadRigids(p, n.expr_type.value.rigids) ELSE <<>>
      [] n.node = "FunctionDef" ->
            IF n.form = "WithAnnotation"
            THEN <<ReadVec(p, n.arguments), Pool_get(p, n.rigids),
                   ReadRigids(p, Pool_get(p, n.rigids))>>
            ELSE <<ReadVec(p, n.arguments)>>

\* The slots a node reaches through its handles.
VecSlots(v) == {v.first_node_id + i - 1 : i \in 1..v.len}
RigidsSlots(r) == VecSlots(r.named) \cup VecSlots(r.unnamed)
NodeSlots(p, n) ==
    CASE n.node = "Rigids" -> RigidsSlots(n)
      [] n.node = "ValueDef" ->
            IF n.expr_type.kind = "Some"
            THEN RigidsSlots(n.expr_type.value.rigids) ELSE {}
      [] n.node = "FunctionDef" ->
            IF n.form = "WithAnnotation"
            THEN VecSlots(n.arguments) \cup {n.rigids}
                 \cup RigidsSlots(Pool_get(p, n.rigids))
            ELSE VecSlots(n.arguments)

----------------------------------------------------------------------------
(* The pool's specification: allocations, writes through handles, teardown,
   and a node over the pool's handles with its shallow_clone. *)

PoolIdle ==
    /\ pool = FreshPool
    /\ issued = <<>>
    /\ vecs = {}
    /\ stored = <<>>
    /\ pool_res = None
    /\ orig = None
    /\ dup = None
    /\ touched = FALSE

MemIdle ==
    /\ wordsize = 8
    /\ build = "trapping"
    /\ buffer = [base |-> 4096, bytes |-> <<>>]
    /\ memory = [start |-> 4096]
    /\ app = [memory |-> memory, offset |-> 0]
    /\ pc = "ready"
    /\ last = [call |-> [op |-> "none", ty |-> "-", addr |-> 0, t |-> "-",
                         size |-> 0, target |-> 0],
               ret |-> None, calls |-> <<>>, reads |-> {}, ret_bytes |-> 0]
    /\ first = None
    /\ encoded = None

LayoutIdle ==
    /\ variant = [enum |-> "none", name |-> "none"]
    /\ align128 = 16
    /\ placed = 0
    /\ end_off = 0

ExprValues == {SmallInt(42, "Decimal"), SmallInt(7, "Hex")}
RigidsValues == {Rigids(v, EmptyVec) : v \in vecs \cup {EmptyVec}}
SlotValues == ExprValues \cup RigidsValues

Written(v) == [v |-> v, mutated |-> FALSE]

InitPool == PoolIdle /\ MemIdle /\ LayoutIdle

\* pool.add(value)
PoolAdd ==
    \E v \in SlotValues :
        LET r == Pool_add(pool, v)
        IN /\ pool' = r.pool
           /\ pool_res' = r.res
           /\ IF r.res.kind = "Ok"
              THEN /\ issued' = Append(issued, r.res.value)
                   /\ stored' = Append(stored, Written(v))
              ELSE UNCHANGED <<issued, stored>>
           /\ UNCHANGED <<vecs, orig, dup, touched, memvars, layoutvars>>

\* PoolVec::new of two expression nodes
PoolVecNew ==
    \E a \in ExprValues, b \in ExprValues :
        LET r == PoolVec_new(pool, <<a, b>>)
        IN /\ pool' = r.pool
           /\ pool_res' = r.res
           /\ IF r.res.kind = "Ok"
              THEN /\ issued' = issued \o <<r.res.value.first_node_id,
                                           r.res.value.first_node_id + 1>>
                   /\ stored' = stored \o <<Written(a), Written(b)>>
                   /\ vecs' = vecs \cup {r.res.value}
              ELSE UNCHANGED <<issued, stored, vecs>>
           /\ UNCHANGED <<orig, dup, touched, memvars, layoutvars>>

\* *pool.get_mut(id) = value, with a value of the slot's type
PoolSet ==
    \E i \in 1..Len(issued), v \in SlotValues :
        /\ v.node = Pool_get(pool, issued[i]).node
        /\ pool' = Pool_set(pool, issued[i], v)
        /\ stored' = [stored EXCEPT ![issued[i] + 1] = [v |-> v, mutated |-> issued[i] = 0]]
        /\ touched' = (touched \/ (dup # None /\ issued[i] \in NodeSlots(pool, orig)))
        /\ UNCHANGED <<issued, vecs, pool_res, orig, dup, memvars, layoutvars>>

\* The pool is dropped as a whole, and a fresh one takes its place.
PoolTeardown ==
    /\ pool.count > 0
    /\ pool' = FreshPool
    /\ pool_res' = None
    /\ issued' = <<>>
    /\ vecs' = {}
    /\ stored' = <<>>
    /\ orig' = None
    /\ dup' = None
    /\ touched' = FALSE
    /\ UNCHANGED <<memvars, layoutvars>>

RigidsIds == {issued[i] : i \in {j \in 1..Len(issued) : Pool_get(pool, issued[j]).node = "Rigids"}}

\* The nodes that can be built over the handles issued so far.
Nodes ==
    {ValueDef(1, NoneOpt, 5)}
    \cup {ValueDef(1, Some([id |-> 7, rigids |-> Rigids(v, EmptyVec)]), 5) : v \in vecs}
    \cup {WithAnnotation(3, v, r, 7) : v \in vecs, r \in RigidsIds}
    \cup {NoAnnotation(4, v, 9) : v \in vecs}
    \cup {Rigids(v, v) : v \in vecs}

MakeNode ==
    /\ orig = None
    /\ \E n \in Nodes : orig' = n
    /\ UNCHANGED <<pool, issued, vecs, stored, pool_res, dup, touched, memvars, layoutvars>>

ShallowClone ==
    /\ orig # None
    /\ dup = None
    /\ dup' = shallow_clone(orig)
    /\ UNCHANGED <<pool, issued, vecs, stored, pool_res, orig, touched, memvars, layoutvars>>

NextPool ==
    \/ PoolAdd
    \/ PoolVecNew
    \/ PoolSet
    \/ PoolTeardown
    \/ MakeNode
    \/ ShallowClone

SpecPool == InitPool /\ [][NextPool]_vars

----------------------------------------------------------------------------
(* editor/src/ast.rs: the size of Expr2, as std::mem::size_of computes it for
   a tagged enum: a tag byte, then each variant's fields in order of rising
   alignment, each at the next offset its alignment allows, and the whole
   rounded up to the largest alignment. *)

Enums == {"Expr2", "IntVal", "FloatVal"}

IntValFields(v) ==
    CASE v = "I64" -> <<"i64">>
      [] v = "U64" -> <<"u64">>
      [] v = "I32" -> <<"i32">>
      [] v = "U32" -> <<"u32">>
      [] v = "I16" -> <<"i16">>
      [] v = "U16" -> <<"u16">>
      [] v = "I8" -> <<"i8">>
      [] v = "U8" -> <<"u8">>

FloatValFields(v) ==
    CASE v = "F64" -> <<"f64">>
      [] v = "F32" -> <<"f32">>

Expr2Variants ==
    {"SmallInt", "I128", "U128", "Float", "SmallStr", "Str", "Var", "List", "If",
     "When", "LetRec", "LetFunction", "LetValue", "Call", "RunLowLevel",
     "Closure", "Record", "EmptyRecord", "Access", "Accessor", "Update",
     "GlobalTag", "PrivateTag", "RuntimeError"}

\* A faulty variant of Expr2Fields: Closure holds the fields of ClosureExtra itself.
Expr2Fields_closure_inline(v) ==
    CASE v = "SmallInt" -> <<"IntVal", "Variable", "IntStyle", "PoolStr">>
      [] v = "I128" -> <<"i128", "Variable", "IntStyle", "PoolStr">>
      [] v = "U128" -> <<"u128", "Variable", "IntStyle", "PoolStr">>
      [] v = "Float" -> <<"FloatVal", "Variable">>
      [] v = "SmallStr" -> <<"ArrayString30">>
      [] v = "Closure" -> <<"PoolVec", "Symbol", "NodeId", "Variable", "Recursive",
                            "Variable", "PoolVec", "Variable", "Variable">>
      [] OTHER -> <<"PoolVec", "Variable">>

Expr2Fields(v) ==
    CASE v = "SmallInt" -> <<"IntVal", "Variable", "IntStyle", "PoolStr">>
      [] v = "I128" -> <<"i128", "Variable", "IntStyle", "PoolStr">>
      [] v = "U128" -> <<"u128", "Variable", "IntStyle", "PoolStr">>
      [] v = "Float" -> <<"FloatVal", "Variable">>
      [] v = "SmallStr" -> <<"ArrayString30">>
      [] v = "Str" -> <<"PoolStr">>
      [] v = "Var" -> <<"Symbol">>
      [] v = "List" -> <<"Variable", "Variable", "PoolVec">>
      [] v = "If" -> <<"Variable", "Variable", "PoolVec", "NodeId">>
      [] v = "When" -> <<"Variable", "Variable", "PoolVec", "NodeId">>
      [] v = "LetRec" -> <<"PoolVec", "Variable", "NodeId">>
      [] v = "LetFunction" -> <<"NodeId", "Variable", "NodeId">>
      [] v = "LetValue" -> <<"NodeId", "NodeId", "Variable">>
      [] v = "Call" -> <<"PoolVec", "NodeId", "Variable", "Variable", "Variable",
                         "CalledVia">>
      [] v = "RunLowLevel" -> <<"LowLevel", "PoolVec", "Variable">>
      [] v = "Closure" -> <<"PoolVec", "Symbol", "NodeId", "Variable", "Recursive",
                            "NodeId">>
      [] v = "Record" -> <<"Variable", "PoolVec">>
      [] v = "EmptyRecord" -> <<>>
      [] v = "Access" -> <<"PoolStr", "NodeId", "Variable", "Variable", "Variable">>
      [] v = "Accessor" -> <<"Variable", "Variable", "PoolStr", "Variable",
                             "Variable", "Variable">>
      [] v = "Update" -> <<"Symbol", "PoolVec", "Variable", "Variable">>
      [] v = "GlobalTag" -> <<"PoolStr", "Variable", "Variable", "PoolVec">>
      [] v = "PrivateTag" -> <<"Symbol", "Variable", "Variable", "PoolVec">>
      [] v = "RuntimeError" -> <<>>

VariantsOf(enum) ==
    CASE enum = "Expr2" -> Expr2Variants
      [] enum = "IntVal" -> {"I64", "U64", "I32", "U32", "I16", "U16", "I8", "U8"}
      [] enum = "FloatVal" -> {"F64", "F32"}

FieldsOf(enum, v) ==
    CASE enum = "Expr2" -> Expr2Fields(v)
      [] enum = "IntVal" -> IntValFields(v)
      [] enum = "FloatVal" -> FloatValFields(v)

Max(S) == CHOOSE x \in S : \A y \in S : y <= x
AlignUp(off, align) == ((off + align - 1) \div align) * align

RECURSIVE LayoutOf(_, _), SizeOfEnum(_, _), AlignOfEnum(_, _), EndOfFields(_, _, _, _)

\* The size and alignment of a field's type; a128 is the alignment of the
\* 128-bit integers.
LayoutOf(ty, a128) ==
    CASE ty \in {"i8", "u8", "IntStyle", "LowLevel", "Recursive"} -> [size |-> 1, align |-> 1]
      [] ty = "CalledVia" -> [size |-> 2, align |-> 1]
      [] ty \in {"i16", "u16"} -> [size |-> 2, align |-> 2]
      [] ty \in {"i32", "u32", "f32", "Variable", "NodeId"} -> [size |-> 4, align |-> 4]
      [] ty \in {"PoolStr", "PoolVec"} -> [size |-> 8, align |-> 4]
      [] ty \in {"i64", "u64", "f64", "Symbol"} -> [size |-> 8, align |-> 8]
      [] ty \in {"i128", "u128"} -> [size |-> 16, align |-> a128]
      [] ty = "ArrayString30" -> [size |-> 31, align |-> 1]
      [] ty \in Enums -> [size |-> SizeOfEnum(ty, a128), align |-> AlignOfEnum(ty, a128)]

\* The fields in the order they are laid out: by rising alignment.
FieldOrder(fields, a128) ==
    LET OfAlign(a) == SelectSeq(fields, LAMBDA ty : LayoutOf(ty, a128).align = a)
    IN OfAlign(1) \o OfAlign(2) \o OfAlign(4) \o OfAlign(8) \o OfAlign(16)

\* The offset a field is placed at after the end of the one before it.
PlaceAt(end, ty, a128) == AlignUp(end, LayoutOf(ty, a128).align)

\* The end of the i-th and later fields placed after end.
EndOfFields(fields, i, end, a128) ==
    IF i > Len(fields) THEN end
    ELSE EndOfFields(fields, i + 1,
                     PlaceAt(end, fields[i], a128) + LayoutOf(fields[i], a128).size,
                     a128)

\* The size of a variant: the tag byte and its fields.
SizeOfVariant(enum, v, a128) ==
    EndOfFields(FieldOrder(FieldsOf(enum, v), a128), 1, 1, a128)

AlignOfEnum(enum, a128) ==
    Max({1} \cup {LayoutOf(FieldsOf(enum, v)[i], a128).align :
                     <<v, i>> \in {<<w, j>> \in VariantsOf(enum) \X (1..9) :
                                      j <= Len(FieldsOf(enum, w))}})

\* std::mem::size_of::<enum>()
SizeOfEnum(enum, a128) ==
    AlignUp(Max({SizeOfVariant(enum, v, a128) : v \in VariantsOf(enum)}),
            AlignOfEnum(enum, a128))

\* The layout's specification: one variant of one of the enums, in a build
\* with either alignment of the 128-bit integers, laid out field by field.
InitLayout ==
    /\ \E enum \in Enums : \E v \in VariantsOf(enum) : variant = [enum |-> enum, name |-> v]
    /\ align128 \in {8, 16}
    /\ placed = 0
    /\ end_off = 1
    /\ PoolIdle
    /\ MemIdle

PlaceField ==
    LET fields == FieldOrder(FieldsOf(variant.enum, variant.name), align128)
    IN /\ placed < Len(fields)
       /\ placed' = placed + 1
       /\ end_off' = PlaceAt(end_off, fields[placed + 1], align128)
                     + LayoutOf(fields[placed + 1], align128).size
       /\ UNCHANGED <<variant, align128, memvars, poolvars>>

NextLayout == PlaceField

SpecLayout == InitLayout /\ [][NextLayout]_vars

----------------------------------------------------------------------------
(* The producer of the buffer: the evaluated program's runtime, which stores
   a string inline when it is shorter than the slot and out of line, as
   (offset, length, capacity), otherwise. *)

\* The bytes of a buffer before anything is stored in it: 0, 1, 2 and then
\* bytes that differ from address to address.
Background ==
    [i \in 1..BufLen |-> IF i <= 3 THEN i - 1 ELSE ((i - 1) * 37 + 11) % 256]

WriteAt(bytes, addr, data) ==
    [i \in 1..Len(bytes) |->
        IF addr < i /\ i <= addr + Len(data) THEN data[i - addr] ELSE bytes[i]]

\* The little-endian bytes of a word below HugeWord.
LeBytes(n) ==
    [i \in 1..wordsize |-> IF i > 3 THEN 0 ELSE (n \div (256 ^ (i - 1))) % 256]

\* A small string's slot: the text, zeros, and the length with the top bit
\* set in the last byte.
EncodeSmall(s) ==
    [i \in 1..WIDTH |->
        IF i <= Len(s) THEN s[i] ELSE IF i = WIDTH THEN 128 + Len(s) ELSE 0]

\* An out-of-line descriptor; the capacity is given as its bytes.
EncodeBig(off, len, capbits) == LeBytes(off) \o LeBytes(len) \o capbits

\* The capacities a descriptor of a string of length len may carry: the
\* length, a larger capacity, and the largest word with a clear top bit.
CapBits(len) ==
    {LeBytes(len), LeBytes(len + 9),
     [i \in 1..wordsize |-> IF i = wordsize THEN 127 ELSE 255]}

StoreInline(bytes, addr, s) == WriteAt(bytes, addr, EncodeSmall(s))

StoreOutOfLine(bytes, addr, off, s, capbits) ==
    WriteAt(WriteAt(bytes, off, s), addr, EncodeBig(off, Len(s), capbits))

StrSeeds == {1, 2}
\* Text of a given length: letters from "a" on, or bytes of multi-byte
\* characters (128 and above).
StrOf(len, k) ==
    [i \in 1..len |-> IF k = 1 THEN 97 + ((i - 1) % 26) ELSE 128 + ((i * 7) % 100)]
Hi == <<104, 105>>
Abcde == StrOf(5, 1)
TestStrings == {StrOf(len, k) : len \in 0..MaxStrLen, k \in StrSeeds} \cup {Hi}

StrAddrs == {3, 8}
DataOff == 64

Encoded(addr, s, form) == [kind |-> "str", addr |-> addr, s |-> s, form |-> form]

\* The buffers of the memory view's specification, each with what was stored.
RoundTripBuffers ==
    {[bytes |-> StoreInline(Background, addr, s), enc |-> Encoded(addr, s, "inline")] :
        addr \in StrAddrs, s \in {x \in TestStrings : Len(x) < WIDTH}}
    \cup
    UNION {{[bytes |-> StoreOutOfLine(Background, addr, DataOff, s, c),
             enc |-> Encoded(addr, s, "outofline")] : c \in CapBits(Len(s))} :
        addr \in StrAddrs, s \in {x \in TestStrings : Len(x) >= WIDTH}}
    \cup
    {[bytes |-> StoreOutOfLine(Background, 16, 100, Abcde, LeBytes(5)),
      enc |-> Encoded(16, Abcde, "outofline")]}

\* Buffers that no producer writes: an inline length beyond the slot, a
\* descriptor that reaches past the buffer, a descriptor whose text starts
\* past the buffer.
MalformedBuffers ==
    {[bytes |-> WriteAt(Background, 8 + WIDTH - 1, <<255>>), enc |-> None],
     [bytes |-> WriteAt(Background, 8, EncodeBig(100, 40, LeBytes(40))), enc |-> None],
     [bytes |-> WriteAt(Background, 8, EncodeBig(4000, 5, LeBytes(5))), enc |-> None]}

ViewBuffers == RoundTripBuffers \cup MalformedBuffers \cup {[bytes |-> Background, enc |-> None]}

NoCall == [op |-> "none", ty |-> "-", addr |-> 0, t |-> "-", size |-> 0, target |-> 0]
NoLast == [call |-> NoCall, ret |-> None, calls |-> <<>>, reads |-> {}, ret_bytes |-> 0]

InitView ==
    /\ wordsize \in WordSizes
    /\ build \in Builds
    /\ \E b \in ViewBuffers :
        /\ buffer = [base |-> 4096, bytes |-> b.bytes]
        /\ encoded = b.enc
    /\ memory = [start |-> buffer.base]
    /\ app = [memory |-> memory, offset |-> 8]
    /\ pc = "ready"
    /\ last = NoLast
    /\ first = None
    /\ PoolIdle
    /\ LayoutIdle

----------------------------------------------------------------------------
(* Calls. *)

\* A call and its outcome: the call is recorded, and a crash ends the process.
\* With track, the first call made is kept with its outcome, and whether any
\* other call followed it, to compare a repetition with.
Step(call, out, track, next_pc) ==
    /\ pc = "ready"
    /\ last' = [call |-> call, ret |-> out.ret, calls |-> out.calls,
                reads |-> out.reads, ret_bytes |-> out.ret_bytes]
    /\ pc' = IF out.ret = Crash THEN "aborted" ELSE next_pc
    /\ app' = out.self
    /\ first' = IF ~track \/ out.ret = Crash THEN first
                ELSE IF first = None
                THEN [kind |-> "kept", call |-> call, ret |-> out.ret, others |-> FALSE]
                ELSE [first EXCEPT !.others = @ \/ call # first.call]
    /\ UNCHANGED <<wordsize, build, buffer, memory, encoded, poolvars, layoutvars>>

\* The outcome of a read through the memory view, which takes &self.
ViewOut(r) == [self |-> app, ret |-> r, calls |-> <<>>, reads |-> {}, ret_bytes |-> 0]

NumAddrs == {0, 1, 2, 3, 5, 7, 8, BufLen - 4, BufLen - 1}

DerefNumber(types, addrs, track, next_pc) ==
    \E ty \in types, addr \in addrs :
        Step([NoCall EXCEPT !.op = "deref_number", !.ty = ty, !.addr = addr],
             ViewOut(deref_number(app.memory, ty, addr)), track, next_pc)

DerefStr(addrs, track, next_pc) ==
    \E addr \in addrs :
        Step([NoCall EXCEPT !.op = "deref_str", !.addr = addr],
             ViewOut(deref_str(app.memory, addr)), track, next_pc)

\* The memory view's specification: one read of a buffer, at any of the
\* addresses and of any of the types.
NextView ==
    \/ DerefNumber(NumTypes, NumAddrs, FALSE, "returned")
    \/ DerefStr(StrAddrs \cup {16, BufLen - 8}, FALSE, "returned")

SpecView == InitView /\ [][NextView]_vars

----------------------------------------------------------------------------
(* ExpectReplApp: impl ReplApp. The outcome of a call is the app after it (the
   methods take &mut self), what it returns, the invocations of the transform
   it made, the reads of memory it made itself, and the byte size it handed
   to the dynamic-size path. *)

Addr(a) == [kind |-> "addr", addr |-> a]

\* The bytes read at the result offset as a value of type Return; the tuple
\* (usize, usize, usize) holds its components in order.
AsReturn(Return, bits) ==
    IF Return = "triple"
    THEN [kind |-> "triple",
          words |-> <<SubSeq(bits, 1, wordsize),
                      SubSeq(bits, wordsize + 1, 2 * wordsize),
                      SubSeq(bits, 2 * wordsize + 1, 3 * wordsize)>>]
    ELSE Val(Return, bits)

\* The transforms the callers supply: "show" hands back what it is given,
\* "str" decodes the string at the address it is given, "len" takes the
\* length of the list triple it is given.
transform(t, mem, arg) ==
    CASE t = "show" -> [kind |-> "shown", arg |-> arg]
      [] t = "str" -> deref_str(mem, arg.addr)
      [] t = "len" -> [kind |-> "len", n |-> AsUsize(arg.words[2])]

CrashOut(self) ==
    [self |-> self, ret |-> Crash, calls |-> <<>>, reads |-> {}, ret_bytes |-> 0]

\* fn call_function<Return, F>(&mut self, _main_fn_name, transform) -> Expr
\* ptr.read() needs ptr aligned for Return; a misaligned read is undefined.
call_function(self, Return, t) ==
    LET ptr == self.memory.start + self.offset
        n == SizeOf(Return)
        misaligned == ptr % AlignOf(Return) # 0
        from == IF misaligned /\ build = "normalising"
                THEN ptr - (ptr % AlignOf(Return)) ELSE ptr
    IN IF (misaligned /\ build = "trapping") \/ Faults(from, n)
       THEN CrashOut(self)
       ELSE LET result == AsReturn(Return, LoadBytes(from, n))
            IN [self |-> self,
                ret |-> transform(t, self.memory, result),
                calls |-> <<[memory |-> self.memory, arg |-> result]>>,
                reads |-> {[ptr |-> from, n |-> n]},
                ret_bytes |-> 0]

\* fn call_function_returns_roc_list<F>(&mut self, main_fn_name, transform)
call_function_returns_roc_list(self, t) == call_function(self, "triple", t)

\* A faulty variant of call_function_dynamic_size: the decoder keeps a cursor and
\* moves it past the value it has handed out.
call_function_dynamic_size_advancing(self, ret_bytes, t) ==
    [self |-> [self EXCEPT !.offset = @ + ret_bytes],
     ret |-> transform(t, self.memory, Addr(self.offset)),
     calls |-> <<[memory |-> self.memory, arg |-> Addr(self.offset)]>>,
     reads |-> {},
     ret_bytes |-> ret_bytes]

\* A faulty variant of call_function_dynamic_size: the size is checked against the
\* buffer before the transform runs.
call_function_dynamic_size_validating(self, ret_bytes, t) ==
    IF Faults(self.memory.start + self.offset, ret_bytes)
    THEN CrashOut(self)
    ELSE [self |-> self,
          ret |-> transform(t, self.memory, Addr(self.offset)),
          calls |-> <<[memory |-> self.memory, arg |-> Addr(self.offset)]>>,
          reads |-> {[ptr |-> self.memory.start + self.offset, n |-> ret_bytes]},
          ret_bytes |-> ret_bytes]

\* fn call_function_dynamic_size<T, F>(&mut self, _main_fn_name, _ret_bytes, transform) -> T
call_function_dynamic_size(self, ret_bytes, t) ==
    [self |-> self,
     ret |-> transform(t, self.memory, Addr(self.offset)),
     calls |-> <<[memory |-> self.memory, arg |-> Addr(self.offset)]>>,
     reads |-> {},
     ret_bytes |-> ret_bytes]

\* fn call_function_returns_roc_str<T, F>(&mut self, _target_info, main_fn_name, transform) -> T
call_function_returns_roc_str(self, target_info, t) ==
    call_function_dynamic_size(self, 24, t)

----------------------------------------------------------------------------
(* The decoder's specification: an ExpectReplApp over a buffer, and any
   sequence of decode calls and reads through its memory view. *)

AppBuffers ==
    {StoreInline(Background, 8, Hi),
     StoreOutOfLine(Background, 16, 100, Abcde, LeBytes(5)),
     WriteAt(Background, 8, EncodeBig(100, 40, LeBytes(40)))}

\* Result offsets: aligned for every word size, odd, a multiple of 4 only,
\* and one far outside the buffer.
AppOffsets == {8, 9, 12, 16, BufLen + 1000}

\* The pointer widths of the targets a TargetInfo names.
TargetInfos == {4, 8}
SizeArgs == {0, 24, 1000}
ReturnTypes == {"u8", "usize"}

Init ==
    /\ wordsize \in WordSizes
    /\ build \in Builds
    /\ \E base \in StartAddrs, bytes \in AppBuffers :
        buffer = [base |-> base, bytes |-> bytes]
    /\ encoded = None
    /\ memory = [start |-> buffer.base]
    /\ \E offset \in AppOffsets : app = [memory |-> memory, offset |-> offset]
    /\ pc = "ready"
    /\ last = NoLast
    /\ first = None
    /\ PoolIdle
    /\ LayoutIdle

CallFunction ==
    \E Return \in ReturnTypes :
        Step([NoCall EXCEPT !.op = "call_function", !.ty = Return, !.t = "show"],
             call_function(app, Return, "show"), TRUE, "ready")

CallFunctionReturnsRocList ==
    \E t \in {"show", "len"} :
        Step([NoCall EXCEPT !.op = "call_function_returns_roc_list", !.t = t],
             call_function_returns_roc_list(app, t), TRUE, "ready")

CallFunctionReturnsRocStr ==
    \E target_info \in TargetInfos, t \in {"show", "str"} :
        Step([NoCall EXCEPT !.op = "call_function_returns_roc_str",
                            !.target = target_info, !.t = t],
             call_function_returns_roc_str(app, target_info, t), TRUE, "ready")

CallFunctionDynamicSize ==
    \E ret_bytes \in SizeArgs, t \in {"show", "str"} :
        Step([NoCall EXCEPT !.op = "call_function_dynamic_size",
                            !.size = ret_bytes, !.t = t],
             call_function_dynamic_size(app, ret_bytes, t), TRUE, "ready")

Next ==
    \/ CallFunction
    \/ CallFunctionReturnsRocList
    \/ CallFunctionReturnsRocStr
    \/ CallFunctionDynamicSize
    \/ DerefNumber({"bool", "u32"}, {2, 5}, TRUE, "ready")
    \/ DerefStr({8}, TRUE, "ready")

Spec == Init /\ [][Next]_vars

----------------------------------------------------------------------------
(* Properties of the calls, stated over the buffer itself. Addresses
   are offsets into the buffer, as the callers of the memory view give them. *)

BufByte(a) == buffer.bytes[a + 1]
BufSlice(a, n) == [i \in 1..n |-> buffer.bytes[a + i]]
Inside(a, n) == a + n <= Len(buffer.bytes)
WordAt(a) == AsUsize(BufSlice(a, wordsize))

IsDerefStr == last.call.op = "deref_str" /\ Inside(last.call.addr, 3 * wordsize)
TagByte == BufByte(last.call.addr + 3 * wordsize - 1)

\* C1 as amended: for every buffer and every addr whose 3-word slot lies inside
\* the buffer, deref_str(addr) looks at the byte at addr + 3*wordsize - 1 as an
\* i8; when it is negative and the length in its low 7 bits is at most
\* 3*wordsize - 1, the result is that many bytes from addr on; when it is not
\* negative and offset + length (the words at addr and addr + wordsize) is at
\* most the buffer's length, the result is the length bytes at offset. The
\* capacity word has no effect.
C1_DerefStrAlgorithm ==
    IsDerefStr =>
        IF TagByte >= 128
        THEN (TagByte - 128 <= 3 * wordsize - 1)
                => last.ret = Str(BufSlice(last.call.addr, TagByte - 128))
        ELSE LET off == WordAt(last.call.addr)
                 len == WordAt(last.call.addr + wordsize)
             IN (off + len <= Len(buffer.bytes)) => last.ret = Str(BufSlice(off, len))

\* C1 as stated: the same for every buffer, with no condition on the length
\* in the tag byte nor on offset + length.
C1_Original ==
    IsDerefStr =>
        IF TagByte >= 128
        THEN last.ret = (IF TagByte - 128 <= 3 * wordsize - 1
                         THEN Str(BufSlice(last.call.addr, TagByte - 128))
                         ELSE [kind |-> "no such bytes"])
        ELSE LET off == WordAt(last.call.addr)
                 len == WordAt(last.call.addr + wordsize)
             IN last.ret = (IF off + len <= Len(buffer.bytes)
                            THEN Str(BufSlice(off, len))
                            ELSE [kind |-> "no such bytes"])

\* An out-of-line string was decoded whose capacity word differs from its
\* length word.
C1_Witness ==
    /\ IsDerefStr
    /\ TagByte < 128
    /\ WordAt(last.call.addr + wordsize) > 0
    /\ WordAt(last.call.addr + 2 * wordsize) # WordAt(last.call.addr + wordsize)
    /\ last.ret = Str(BufSlice(WordAt(last.call.addr), WordAt(last.call.addr + wordsize)))

\* An inline string was decoded.
C1_WitnessInline ==
    /\ IsDerefStr
    /\ TagByte > 128
    /\ TagByte - 128 <= 3 * wordsize - 1
    /\ last.ret = Str(BufSlice(last.call.addr, TagByte - 128))

\* C2: a string the producer stored, inline when shorter than the threshold
\* of 3*wordsize bytes and as an (offset, length, capacity) descriptor with
\* its bytes otherwise, is returned exactly by deref_str on its slot.
C2_RoundTrip ==
    (last.call.op = "deref_str" /\ encoded # None /\ last.call.addr = encoded.addr)
        => last.ret = Str(encoded.s)

\* A string of exactly the threshold length went out of line and came back.
C2_Witness ==
    /\ last.call.op = "deref_str" /\ encoded # None /\ last.call.addr = encoded.addr
    /\ Len(encoded.s) = 3 * wordsize
    /\ encoded.form = "outofline"
    /\ last.ret = Str(encoded.s)

\* A string one byte shorter than the threshold went inline and came back.
C2_WitnessBelow ==
    /\ last.call.op = "deref_str" /\ encoded # None /\ last.call.addr = encoded.addr
    /\ Len(encoded.s) = 3 * wordsize - 1
    /\ encoded.form = "inline"
    /\ last.ret = Str(encoded.s)

\* The two scenarios: "hi" inline at offset 8, and the descriptor (100, 5, 5)
\* at offset 16 with "abcde" at offset 100.
C2_WitnessHi ==
    /\ last.call.op = "deref_str" /\ last.call.addr = 8
    /\ encoded = Encoded(8, Hi, "inline")
    /\ last.ret = Str(Hi)

C2_WitnessAbcde ==
    /\ last.call.op = "deref_str" /\ last.call.addr = 16
    /\ WordAt(16) = 100 /\ WordAt(16 + wordsize) = 5 /\ WordAt(16 + 2 * wordsize) = 5
    /\ BufSlice(100, 5) = Abcde
    /\ last.ret = Str(Abcde)

C2_WitnessEmpty ==
    /\ last.call.op = "deref_str" /\ encoded # None /\ last.call.addr = encoded.addr
    /\ encoded.s = <<>>
    /\ last.ret = Str(<<>>)

IsDerefNumber ==
    /\ last.call.op = "deref_number"
    /\ Inside(last.call.addr, SizeOf(last.call.ty))

\* C3 as amended: a primitive read at addr, with addr + sizeof(type) at most
\* the buffer's length, returns the value whose bit pattern is the
\* sizeof(type) bytes at addr, aligned or not; for deref_bool, provided the
\* byte is 0 or 1.
C3_PrimitiveRead ==
    (IsDerefNumber /\ (last.call.ty = "bool" => BufByte(last.call.addr) \in {0, 1}))
        => last.ret = Val(last.call.ty, BufSlice(last.call.addr, SizeOf(last.call.ty)))

\* C3 as stated: the same for every primitive read, deref_bool of any byte
\* included.
C3_Original ==
    IsDerefNumber
        => last.ret = Val(last.call.ty, BufSlice(last.call.addr, SizeOf(last.call.ty)))

\* An 8-byte value was read at an odd address.
C3_Witness ==
    /\ IsDerefNumber
    /\ last.call.ty = "f64"
    /\ last.call.addr = 5
    /\ last.ret = Val("f64", BufSlice(5, 8))

IsDynamicSize == last.call.op = "call_function_dynamic_size"

\* C4: call_function_dynamic_size, for every result offset O and every size
\* argument S, invokes the transform exactly once, with the decoder's memory
\* view and exactly O, returns the transform's result unchanged, reads nothing
\* of the buffer itself and checks neither O nor S.
C4_DynamicSizePassThrough ==
    IsDynamicSize =>
        /\ last.calls = <<[memory |-> memory, arg |-> Addr(app.offset)]>>
        /\ last.ret = transform(last.call.t, memory, Addr(app.offset))
        /\ last.reads = {}

\* The transform was handed an offset far outside the buffer, with a size that
\* fits no buffer, and its result came back.
C4_Witness ==
    /\ IsDynamicSize
    /\ last.call.size = 1000
    /\ app.offset = BufLen + 1000
    /\ last.call.t = "show"
    /\ last.ret = [kind |-> "shown", arg |-> Addr(BufLen + 1000)]

\* C8: call_function_returns_roc_str declares, for every target, a slot width
\* equal to the 3 machine words deref_str inspects, and the string obtained is
\* the one deref_str decodes from the slot at the result offset.
C8_StrSlotWidth ==
    (last.call.op = "call_function_returns_roc_str" /\ pc # "aborted") =>
        /\ last.ret_bytes = 3 * wordsize
        /\ last.call.t = "str" => last.ret = deref_str(memory, app.offset)

\* What holds of call_function_returns_roc_str in every build: the transform
\* gets the result offset, and the width it declares is 24.
C8_StrDecode ==
    last.call.op = "call_function_returns_roc_str" =>
        /\ last.ret_bytes = 24
        /\ last.calls = <<[memory |-> memory, arg |-> Addr(app.offset)]>>
        /\ last.call.t = "str" => last.ret = deref_str(memory, app.offset)

\* The triple of words the buffer holds at O.
TripleAt(O) ==
    [kind |-> "triple",
     words |-> <<BufSlice(O, wordsize), BufSlice(O + wordsize, wordsize),
                 BufSlice(O + 2 * wordsize, wordsize)>>]

IsListDecode ==
    /\ last.call.op = "call_function_returns_roc_list"
    /\ Inside(app.offset, 3 * wordsize)

\* C9: call_function_returns_roc_list invokes the transform exactly once, with
\* the memory view and the words at O, O + wordsize and O + 2*wordsize, for
\* every O, word-aligned or not.
C9_ListTriple ==
    IsListDecode =>
        /\ last.calls = <<[memory |-> memory, arg |-> TripleAt(app.offset)]>>
        /\ last.ret = transform(last.call.t, memory, TripleAt(app.offset))

\* What holds of call_function_returns_roc_list: the same, where the address
\* of the triple is a multiple of the word size.
C9_ListTripleAligned ==
    (IsListDecode /\ (memory.start + app.offset) % wordsize = 0) =>
        /\ last.calls = <<[memory |-> memory, arg |-> TripleAt(app.offset)]>>
        /\ last.ret = transform(last.call.t, memory, TripleAt(app.offset))

\* A repetition of the first call returns what the first call returned.
Repeatable == (first # None /\ last.call = first.call) => last.ret = first.ret

\* No call changes the buffer, the reference to it or the result offset.
Frame == buffer' = buffer /\ memory' = memory /\ app' = app

\* C10: after any sequence of decode calls and memory-view reads the buffer,
\* the buffer reference and the result offset are unchanged, and a repeated
\* call returns what its first invocation returned, whatever ran in between.
C10_Reusable == []Repeatable /\ [][Frame]_vars

\* A decode call was repeated after other calls and returned the same.
C10_Witness ==
    /\ first # None
    /\ first.others
    /\ last.call = first.call
    /\ last.call.op = "call_function_returns_roc_str"
    /\ last.call.t = "str"
    /\ last.ret = first.ret
    /\ last.ret.kind = "str"

StoredView == [cells |-> [i \in 1..Len(stored) |-> stored[i].v]]

SameFields ==
    /\ dup.node = orig.node
    /\ CASE orig.node = "Rigids" ->
              dup.named = orig.named /\ dup.unnamed = orig.unnamed
         [] orig.node = "ValueDef" ->
              /\ dup.pattern = orig.pattern
              /\ dup.expr_var = orig.expr_var
              /\ dup.expr_type.kind = orig.expr_type.kind
              /\ orig.expr_type.kind = "Some" =>
                    /\ dup.expr_type.value.id = orig.expr_type.value.id
                    /\ dup.expr_type.value.rigids.named = orig.expr_type.value.rigids.named
                    /\ dup.expr_type.value.rigids.unnamed = orig.expr_type.value.rigids.unnamed
         [] orig.node = "FunctionDef" ->
              /\ dup.form = orig.form
              /\ dup.name = orig.name
              /\ dup.arguments = orig.arguments
              /\ IF orig.form = "WithAnnotation"
                 THEN dup.rigids = orig.rigids /\ dup.return_type = orig.return_type
                 ELSE dup.return_var = orig.return_var

C6_WitnessWithAnnotation ==
    dup # None /\ touched /\ orig.node = "FunctionDef" /\ orig.form = "WithAnnotation"

C6_WitnessNoAnnotation ==
    dup # None /\ touched /\ orig.node = "FunctionDef" /\ orig.form = "NoAnnotation"

C6_WitnessRigids == dup # None /\ touched /\ orig.node = "Rigids"

HandlesDistinct ==
    \A i, j \in 1..Len(issued) : i # j => issued[i] # issued[j]

HandlesRead ==
    \A i \in 1..Len(issued) : Pool_get(pool, issued[i]) = stored[issued[i] + 1].v

\* A step keeps every slot and every handle, or drops the whole pool.
NoRemoval ==
    \/ /\ pool'.count >= pool.count
       /\ Len(issued') >= Len(issued)
       /\ SubSeq(issued', 1, Len(issued)) = issued
    \/ pool' = FreshPool /\ issued' = <<>>

\* C7: from a fresh pool, after any allocations (also those that reallocate
\* the backing storage) and writes through handles, the handles issued are
\* pairwise distinct, a read of a handle returns the value last stored in its
\* slot, and nothing but the teardown of the whole pool removes a slot.
C7_HandlesSurviveGrowth == [](HandlesDistinct /\ HandlesRead) /\ [][NoRemoval]_vars

\* The backing storage was reallocated twice, and handle #0, never written
\* again, still reads the value it was allocated with.
C7_Witness ==
    /\ pool.cap >= 4 * InitialCap
    /\ pool.base # FreshPool.base
    /\ Len(issued) >= 3
    /\ issued[1] = 0
    /\ ~stored[1].mutated
    /\ Pool_get(pool, 0) = SmallInt(42, "Decimal")

\* An allocation failed for want of node ids.
C7_WitnessRanOut == pool_res = RanOutOfNodeIds /\ pool.count = MaxNodeIds

LaidOut ==
    /\ variant.enum = "Expr2"
    /\ placed = Len(FieldsOf(variant.enum, variant.name))

====
